---- MODULE Spec2Model ----
(***************************************************************************)
(* hamui: the double-buffered terminal display buffer (src/src/buffer.rs) *)
(* under Spec, and the event loop of the frame around it (src/src/lib.rs,  *)
(* src/src/main.rs) under LoopSpec.                                        *)
(*                                                                         *)
(* A Vec2 (x, y) is the tuple <<x, y>>: pos[1] is the Rust pos.0 (column), *)
(* pos[2] is pos.1 (row).  A Row is a sequence of cells and a grid a       *)
(* sequence of rows; the Rust index i is the TLA+ index i + 1.             *)
(* A panic of the Rust code (an index out of range) ends the process: it   *)
(* is the result "Panic", after which no operation runs.                   *)
(* Coordinates are u16 in the source; every sum here stays far below 2^16; *)
(* the subtractions of the frame are u16 subtractions (u16_sub).           *)
(***************************************************************************)
EXTENDS Integers, Sequences, FiniteSets, TLC

\* ---------------------------------------------------------------- bounds
MaxW == 2
MaxH == 2
MaxLog == 2
MaxText == 2
MaxOps == 2

\* ----------------------------------------------------------------- cells
Chars == {" ", "A"}

EMPTY == [char |-> " ", empty |-> TRUE]

from_char(c) == [char |-> c, empty |-> (c = " ")]

\* BufCell has public fields, so a caller can build a cell whose flag does
\* not follow from its character.
Cells == [char : Chars, empty : BOOLEAN]

as_row(width) == [i \in 1..width |-> EMPTY]

\* Vec::resize(n, fill): truncate, or pad with copies of fill.
VecResize(v, n, fill) == [i \in 1..n |-> IF i <= Len(v) THEN v[i] ELSE fill]

\* Vec::fill(value): every element becomes value, the length stays.
VecFill(v, value) == [i \in 1..Len(v) |-> value]

NewGrid(size) == VecResize(<<>>, size[2], as_row(size[1]))

\* ------------------------------------------------------------ operations
NotFound == "NotFound"
InvalidInput == "InvalidInput"

\* Buffer::get_cell: the cell of screen_vec at pos, or an error.
get_cell(sv, pos) ==
    IF pos[2] + 1 > Len(sv)
    THEN [res |-> NotFound, cell |-> EMPTY]
    ELSE IF pos[1] + 1 > Len(sv[pos[2] + 1])
         THEN [res |-> NotFound, cell |-> EMPTY]
         ELSE [res |-> "Ok", cell |-> sv[pos[2] + 1][pos[1] + 1]]

\* Mutant: the fresh rows are built with the height instead of the width.
resize_vec_square(v, size) ==
    LET cols == [i \in 1..Len(v) |-> VecResize(v[i], size[1], EMPTY)]
    IN  VecResize(cols, size[2], as_row(size[2]))

\* Mutant: the height is taken as a number of rows to add.
resize_vec_appends(v, size) ==
    LET cols == [i \in 1..Len(v) |-> VecResize(v[i], size[1], EMPTY)]
    IN  VecResize(cols, Len(v) + size[2], as_row(size[1]))

\* Mutant: the existing rows are replaced by fresh ones instead of resized.
resize_vec_clears(v, size) ==
    VecResize(<<>>, size[2], as_row(size[1]))

\* Buffer::resize_vec: columns of the existing rows first, then the rows.
resize_vec(v, size) ==
    LET cols == [i \in 1..Len(v) |-> VecResize(v[i], size[1], EMPTY)]
    IN  VecResize(cols, size[2], as_row(size[1]))

\* Result of an operation on the two grids.
Outcome(r, v, sv) == [res |-> r, vec |-> v, screen_vec |-> sv]

SetCell(grid, pos, buf) ==
    [grid EXCEPT ![pos[2] + 1] = [@ EXCEPT ![pos[1] + 1] = buf]]

\* Mutant: no direct path to the committed grid, every write is pending.
write_cell_pending_only(v, sv, pos, buf) ==
    IF pos[2] + 1 > Len(v)
    THEN Outcome(NotFound, v, sv)
    ELSE IF pos[1] > Len(v[pos[2] + 1])
         THEN Outcome(InvalidInput, v, sv)
         ELSE IF pos[1] + 1 > Len(v[pos[2] + 1])
              THEN Outcome("Panic", v, sv)
              ELSE Outcome("Ok", SetCell(v, pos, buf), sv)

\* Buffer::write_cell (impl BufferWrite for Buffer).
write_cell(v, sv, pos, buf) ==
    LET target == IF buf.empty THEN sv ELSE v
    IN  IF pos[2] + 1 > Len(target)
        THEN Outcome(NotFound, v, sv)
        ELSE IF pos[1] > Len(target[pos[2] + 1])
             THEN Outcome(InvalidInput, v, sv)
             ELSE IF pos[1] + 1 > Len(target[pos[2] + 1])
                  THEN Outcome("Panic", v, sv)   \* row[pos.0]: index == len
                  ELSE IF buf.empty
                       THEN Outcome("Ok", v, SetCell(sv, pos, buf))
                       ELSE Outcome("Ok", SetCell(v, pos, buf), sv)

\* BufferWrite::write_str: one write_cell per character, stopping at the
\* first one that does not succeed.
RECURSIVE write_str_from(_, _, _, _, _)
write_str_from(v, sv, pos, chars, i) ==
    IF i > Len(chars)
    THEN Outcome("Ok", v, sv)
    ELSE LET r == write_cell(v, sv, <<pos[1] + (i - 1), pos[2]>>, from_char(chars[i]))
         IN  IF r.res # "Ok"
             THEN r
             ELSE write_str_from(r.vec, r.screen_vec, pos, chars, i + 1)

write_str(v, sv, pos, chars) == write_str_from(v, sv, pos, chars, 1)

\* Buffer::fill_range: always on the pending grid; row[col] panics past the
\* end of the row, after the columns before it were filled.
fill_range(v, sv, start, end, row_y, buf) ==
    IF row_y + 1 > Len(v)
    THEN Outcome(NotFound, v, sv)
    ELSE LET row == v[row_y + 1]
             filled == [x \in 1..Len(row) |->
                          IF start <= x - 1 /\ x - 1 < end THEN buf ELSE row[x]]
         IN  Outcome(IF start < end /\ end > Len(row) THEN "Panic" ELSE "Ok",
                     [v EXCEPT ![row_y + 1] = filled], sv)

\* Mutant: no de-duplication, every entry is forwarded to write_cell.
is_changed_always(sv, change) == TRUE

\* The de-duplication test of Buffer::consume_changes.
is_changed(sv, change) == get_cell(sv, change.loc).cell # change.cell

\* Buffer::consume_changes.
RECURSIVE consume_from(_, _, _, _)
consume_from(v, sv, changes, i) ==
    IF i > Len(changes)
    THEN Outcome("Ok", v, sv)
    ELSE LET change == changes[i]
             got == get_cell(sv, change.loc)
         IN  IF got.res # "Ok"
             THEN Outcome(got.res, v, sv)
             ELSE IF ~is_changed(sv, change)
                  THEN consume_from(v, sv, changes, i + 1)
                  ELSE LET r == write_cell(v, sv, change.loc, change.cell)
                       IN  IF r.res # "Ok"
                           THEN r
                           ELSE consume_from(r.vec, r.screen_vec, changes, i + 1)

consume_changes(v, sv, changes) == consume_from(v, sv, changes, 1)

\* ---------------------------------------------------------------- commit
\* Mutant: without the whole-row comparison with the committed row.
row_repainted_any_pending(v, sv, width, y) ==
    /\ v[y] # as_row(width)
    /\ y <= Len(sv)

\* The rows of the pending grid that Buffer::commit repaints.
row_repainted(v, sv, width, y) ==
    /\ v[y] # as_row(width)
    /\ y <= Len(sv)
    /\ sv[y] # v[y]

\* Mutant: an empty pending cell is merged over a non-empty committed cell.
merge_row_erases(row, srow) ==
    [x \in 1..Len(srow) |->
        IF x > Len(row) THEN srow[x]
        ELSE IF srow[x].char = row[x].char THEN srow[x]
        ELSE row[x]]

\* The per-column merge of a pending row into its on-screen row.
merge_row(row, srow) ==
    [x \in 1..Len(srow) |->
        IF x > Len(row) THEN srow[x]
        ELSE IF row[x].empty /\ ~srow[x].empty THEN srow[x]
        ELSE IF srow[x].char = row[x].char THEN srow[x]
        ELSE row[x]]

commit_screen(v, sv, width) ==
    [y \in 1..Len(sv) |->
        IF y <= Len(v) /\ row_repainted(v, sv, width, y)
        THEN merge_row(v[y], sv[y])
        ELSE sv[y]]

\* Mutant: the pending grid is not reset.
commit_vec_no_reset(v, width) == v

\* The reset of the pending grid that ends Buffer::commit.
commit_vec(v, width) == VecFill(v, as_row(width))

line_of(srow) == [x \in 1..Len(srow) |-> srow[x].char]

\* What commit hands to stdout: per repainted row, MoveTo(0, y) and the line.
RECURSIVE commit_writes(_, _, _, _)
commit_writes(v, sv, width, y) ==
    IF y > Len(v)
    THEN <<>>
    ELSE IF row_repainted(v, sv, width, y)
         THEN <<[move_to |-> <<0, y - 1>>, line |-> line_of(merge_row(v[y], sv[y]))]>>
                \o commit_writes(v, sv, width, y + 1)
         ELSE commit_writes(v, sv, width, y + 1)

\* ----------------------------------------------------------------- state
VARIABLES
    size,        \* Buffer.size
    vec,         \* Buffer.vec: the pending grid
    screen_vec,  \* Buffer.screen_vec: the committed grid
    out,         \* what the last operation handed to stdout
    last,        \* the last operation, the arguments the properties read, its result
    nops,        \* writes, fills, absorbs and resizes run so far; ticks of the loop
    keyboard_input_mode,  \* State.keyboard_input_mode
    clicked,              \* State.clicked
    input,                \* State.input
    cursor_pos,           \* State.cursor_pos
    min_x,                \* State.min_x
    update_needed,        \* the flag of main's loop
    terminal,             \* the characters the terminal shows
    event,                \* the event the last poll_events handled
    proc,                 \* "running", "panicked", "unwrap_err" or "exited"
    pc,                   \* what main's loop calls next: "poll" or "step"
    commits,              \* the commit passes of the current tick
    resized,              \* a Resize event has been handled
    queue,                \* the events the terminal has queued
    hit                   \* a click test: its arguments and its result

state_vars == <<keyboard_input_mode, clicked, input, cursor_pos, min_x>>
frame_vars == <<state_vars, update_needed, terminal, event, proc, pc,
                commits, resized, queue, hit>>
vars == <<size, vec, screen_vec, out, last, nops, frame_vars>>

Sizes == (1..MaxW) \X (1..MaxH)

\* Every cell of the largest grid's first row and first column, its far
\* corner, one column past the end and one row past the end.
Positions ==
    ((0..MaxW) \X {0}) \cup ({0} \X (0..MaxH)) \cup {<<MaxW - 1, MaxH - 1>>}
StrPositions == {<<0, 0>>, <<MaxW - 1, MaxH - 1>>, <<0, MaxH>>}
LogPositions == {<<0, 0>>, <<MaxW - 1, 0>>}
Ranges == {se \in (0..MaxW) \X (0..MaxW) : se[1] <= se[2]}
Texts == UNION {[1..n -> Chars] : n \in 0..MaxText}
\* A render pass writes its text through write_str, so its cells are from_char.
Changes == [loc : LogPositions, cell : {from_char(c) : c \in Chars}]
Logs == UNION {[1..n -> Changes] : n \in 0..MaxLog}

NoArgs == [pos |-> <<0, 0>>, cell |-> EMPTY, changes |-> <<>>,
           old_size |-> <<0, 0>>, clean |-> FALSE, kept |-> FALSE]

\* A repainted row holds a non-empty committed cell under an empty pending one.
KeepsCell(v, sv, width) ==
    \E y \in 1..Len(v) :
        /\ row_repainted(v, sv, width, y)
        /\ \E x \in 1..Len(v[y]) :
              x <= Len(sv[y]) /\ v[y][x].empty /\ ~sv[y][x].empty

Op(name, args, r) == [op |-> name, res |-> r] @@ args @@ NoArgs

Alive == last.res # "Panic"
Running == Alive /\ nops < MaxOps

\* Clear(All), and the alternate screen open_env enters
ClearAll(sz) == [y \in 1..sz[2] |-> [x \in 1..sz[1] |-> " "]]

NoEvent == [kind |-> "None", arg |-> <<>>, redraw |-> FALSE]

NoHit == [op |-> "none"]

\* Frame::new
FrameNew ==
    /\ keyboard_input_mode = FALSE
    /\ clicked = <<0, 0>>
    /\ input = <<>>
    /\ cursor_pos = <<0, 0>>
    /\ min_x = 0
    /\ update_needed = TRUE
    /\ event = NoEvent
    /\ proc = "running"
    /\ pc = "poll"
    /\ commits = 0
    /\ resized = FALSE
    /\ queue = <<>>

\* Buffer::new: a buffer on its own, no frame around it and no terminal
Init ==
    /\ size \in Sizes
    /\ vec = NewGrid(size)
    /\ screen_vec = NewGrid(size)
    /\ out = <<>>
    /\ last = Op("new", <<>>, "Ok")
    /\ nops = 0
    /\ FrameNew
    /\ terminal = <<>>
    /\ hit = NoHit

Apply(r) ==
    /\ vec' = r.vec
    /\ screen_vec' = r.screen_vec
    /\ out' = <<>>
    /\ nops' = nops + 1
    /\ UNCHANGED <<size, frame_vars>>

WriteCell ==
    /\ Running
    /\ \E pos \in Positions, buf \in Cells :
          LET r == write_cell(vec, screen_vec, pos, buf)
          IN  /\ Apply(r)
              /\ last' = Op("write_cell", [pos |-> pos, cell |-> buf], r.res)

WriteStr ==
    /\ Running
    /\ \E pos \in StrPositions, text \in Texts :
          LET r == write_str(vec, screen_vec, pos, text)
          IN  /\ Apply(r)
              /\ last' = Op("write_str", <<>>, r.res)

FillRange ==
    /\ Running
    /\ \E se \in Ranges, row_y \in {0, MaxH}, buf \in {EMPTY, from_char("A")} :
          LET r == fill_range(vec, screen_vec, se[1], se[2], row_y, buf)
          IN  /\ Apply(r)
              /\ last' = Op("fill_range", <<>>, r.res)

ConsumeChanges ==
    /\ Running
    /\ \E changes \in Logs :
          LET r == consume_changes(vec, screen_vec, changes)
          IN  /\ Apply(r)
              /\ last' = Op("consume_changes",
                            [changes |-> changes, clean |-> (vec = NewGrid(size))],
                            r.res)

\* Buffer::commit
Commit ==
    /\ Alive
    /\ screen_vec' = commit_screen(vec, screen_vec, size[1])
    /\ out' = commit_writes(vec, screen_vec, size[1], 1)
    /\ vec' = commit_vec(vec, size[1])
    /\ last' = Op("commit", [kept |-> KeepsCell(vec, screen_vec, size[1])], "Ok")
    /\ UNCHANGED <<size, nops, frame_vars>>

\* Buffer::resize
Resize ==
    /\ Running
    /\ \E new_size \in Sizes :
          /\ vec' = resize_vec(vec, new_size)
          /\ screen_vec' = resize_vec(screen_vec, new_size)
          /\ size' = new_size
          /\ last' = Op("resize", [old_size |-> size], "Ok")
    /\ out' = <<>>
    /\ nops' = nops + 1
    /\ UNCHANGED frame_vars

Next ==
    \/ WriteCell
    \/ WriteStr
    \/ FillRange
    \/ ConsumeChanges
    \/ Commit
    \/ Resize

Spec == Init /\ [][Next]_vars

\* The terminal writes of `writes` that are positioned on row y (0-based).
WritesFor(writes, y) == {i \in 1..Len(writes) : writes[i].move_to[2] = y}

\* ------------------------------------------------------ the frame (lib.rs)
\* The event loop of src/src/main.rs around a Frame.  One iteration of the
\* loop (a tick) is poll_events, which handles at most one event, followed by
\* step on the first tick and step_no_draw on every later one.  The process
\* ends when a call panics ("panicked"), when main unwraps an Err a call
\* returned ("unwrap_err"), or when Ctrl+C calls exit ("exited").
\* The terminal is a grid of characters: a row write of commit replaces the
\* characters of a row and Clear(All) blanks every row.

\* the side windows of the Right key
SidePanel == 51
\* Vec2 is (u16, u16)
U16 == 65536
\* the text main's draw function renders at (0, 0)
DrawText == <<"H", "e", "l", "l", "o", ",", " ", "w", "o", "r", "l", "d", "!">>

MaxExtraW == 1
MaxRows == 2
MaxTicks == 4

\* Window sizes wide enough for the side windows (the narrowest and the
\* shortest of them, and the widest and tallest within the bounds), and one
\* too narrow for the text of the draw function.  The loop starts in a wide
\* window.
LoopSizes == {SidePanel + 1, SidePanel + 1 + MaxExtraW} \X {1, MaxRows}
NarrowSize == <<Len(DrawText) - 1, 1>>

\* u16 subtraction: with overflow checks (a debug build) a - b panics when
\* a < b, without them (a release build) it wraps.
u16_sub_panics(a, b, checked) == checked /\ a < b
u16_sub(a, b) == (a - b) % U16

\* Mutant: one space fewer.
Repeat_short(c, n) == [i \in 1..(n - 1) |-> c]

\* Mutant: the character after the index is removed.
RemoveAt_next(s, idx) == SubSeq(s, 1, idx + 1) \o SubSeq(s, idx + 3, Len(s))

\* String::insert, String::remove, str::repeat
InsertAt(s, idx, c) == SubSeq(s, 1, idx) \o <<c>> \o SubSeq(s, idx + 1, Len(s))
RemoveAt(s, idx) == SubSeq(s, 1, idx) \o SubSeq(s, idx + 2, Len(s))
Repeat(c, n) == [i \in 1..n |-> c]

\* The frame as a record: State, the buffer, the terminal, the result of the
\* call and whether the call ran a render pass to its end.
CurFrame ==
    [keyboard_input_mode |-> keyboard_input_mode, clicked |-> clicked,
     input |-> input, cursor_pos |-> cursor_pos, min_x |-> min_x,
     size |-> size, vec |-> vec, screen_vec |-> screen_vec,
     terminal |-> terminal, out |-> out, res |-> "Ok", redraw |-> FALSE,
     commits |-> IF pc = "poll" THEN 0 ELSE commits]

WithBuffer(f, r) ==
    [f EXCEPT !.vec = r.vec, !.screen_vec = r.screen_vec, !.res = r.res]

\* The terminal after the row writes of a commit.
TerminalAfter(term, writes) ==
    [y \in 1..Len(term) |->
        IF WritesFor(writes, y - 1) = {}
        THEN term[y]
        ELSE LET line == writes[CHOOSE i \in WritesFor(writes, y - 1) : TRUE].line
             IN  [x \in 1..Len(term[y]) |->
                    IF x <= Len(line) THEN line[x] ELSE term[y][x]]]

\* Buffer::commit with its writes applied to the terminal
frame_commit(f) ==
    LET writes == commit_writes(f.vec, f.screen_vec, f.size[1], 1)
    IN  [f EXCEPT !.screen_vec = commit_screen(f.vec, f.screen_vec, f.size[1]),
                  !.vec = commit_vec(f.vec, f.size[1]),
                  !.out = writes,
                  !.commits = f.commits + 1,
                  !.terminal = TerminalAfter(f.terminal, writes)]

\* PseudoBuffer::write_cell through BufferWrite::write_str
pseudo_write_str(pos, chars) ==
    [i \in 1..Len(chars) |->
        [loc |-> <<pos[1] + i - 1, pos[2]>>, cell |-> from_char(chars[i])]]

\* the draw closure of main
draw_fn == pseudo_write_str(<<0, 0>>, DrawText)

\* Mutant: step_no_draw without its commit.
step_no_draw_skips(f) == f

\* Frame::step_no_draw
step_no_draw(f) == frame_commit(f)

\* Frame::step
step(f) ==
    LET r == consume_changes(f.vec, f.screen_vec, draw_fn)
    IN  IF r.res # "Ok"
        THEN WithBuffer(f, r)
        ELSE [step_no_draw(WithBuffer(f, r)) EXCEPT !.redraw = TRUE]

\* Event::Resize
on_resize(f, new_size) ==
    step([f EXCEPT !.vec = resize_vec(f.vec, new_size),
                   !.screen_vec = resize_vec(f.screen_vec, new_size),
                   !.size = new_size,
                   !.terminal = ClearAll(new_size)])

\* Mutant: a character key is handled in the pointer mode too.
on_char_ungated(f, c, checked) ==
    LET write_at == f.clicked[1]
        real_pos == u16_sub(f.cursor_pos[1], write_at)
        y == f.cursor_pos[2]
    IN  IF u16_sub_panics(f.cursor_pos[1], write_at, checked)
        THEN [f EXCEPT !.res = "Panic"]
        ELSE IF real_pos > Len(f.input) THEN f
        ELSE LET text == InsertAt(f.input, real_pos, c)
                 w == write_str(f.vec, f.screen_vec, <<write_at, y>>, text)
                 g == WithBuffer([f EXCEPT !.input = text], w)
             IN  IF w.res # "Ok"
                 THEN [g EXCEPT !.cursor_pos = <<write_at, y>>]
                 ELSE step([g EXCEPT !.cursor_pos = <<f.cursor_pos[1] + 1, y>>])

\* KeyCode::Char without Ctrl
on_char(f, c, checked) ==
    IF ~f.keyboard_input_mode THEN f
    ELSE LET write_at == f.clicked[1]
             real_pos == u16_sub(f.cursor_pos[1], write_at)
             y == f.cursor_pos[2]
         IN  IF u16_sub_panics(f.cursor_pos[1], write_at, checked)
             THEN [f EXCEPT !.res = "Panic"]
             ELSE IF real_pos > Len(f.input) THEN f
             ELSE LET text == InsertAt(f.input, real_pos, c)
                      w == write_str(f.vec, f.screen_vec, <<write_at, y>>, text)
                      g == WithBuffer([f EXCEPT !.input = text], w)
                  IN  IF w.res # "Ok"
                      THEN [g EXCEPT !.cursor_pos = <<write_at, y>>]
                      ELSE step([g EXCEPT !.cursor_pos = <<f.cursor_pos[1] + 1, y>>])

\* Mutant: leaving the keyboard mode keeps the text.
on_esc_keeps_input(f) ==
    IF ~f.keyboard_input_mode
    THEN [f EXCEPT !.keyboard_input_mode = TRUE,
                   !.clicked = <<f.cursor_pos[1], f.clicked[2]>>]
    ELSE [f EXCEPT !.keyboard_input_mode = FALSE]

\* KeyCode::Esc
on_esc(f) ==
    IF ~f.keyboard_input_mode
    THEN [f EXCEPT !.keyboard_input_mode = TRUE,
                   !.clicked = <<f.cursor_pos[1], f.clicked[2]>>]
    ELSE [f EXCEPT !.keyboard_input_mode = FALSE, !.input = <<>>]

\* Mutant: Enter on the last row moves a row down like on any other row.
on_enter_no_wrap(f) ==
    step([f EXCEPT !.input = <<>>,
                   !.clicked = <<f.clicked[1], f.clicked[2] + 1>>,
                   !.cursor_pos = <<f.clicked[1], f.clicked[2] + 1>>])

\* KeyCode::Enter
on_enter(f) ==
    IF f.cursor_pos[2] + 1 = f.size[2]
    THEN step([f EXCEPT !.input = <<>>,
                        !.terminal = ClearAll(f.size),
                        !.cursor_pos = <<0, 0>>])
    ELSE step([f EXCEPT !.input = <<>>,
                        !.clicked = <<f.clicked[1], f.clicked[2] + 1>>,
                        !.cursor_pos = <<f.clicked[1], f.clicked[2] + 1>>])

\* Mutant: the Left key without its check against min_x.
on_left_unchecked(f, checked) ==
    IF u16_sub_panics(f.cursor_pos[1], 1, checked)
    THEN [f EXCEPT !.res = "Panic"]
    ELSE [f EXCEPT !.cursor_pos = <<u16_sub(f.cursor_pos[1], 1), f.cursor_pos[2]>>]

\* KeyCode::Left
on_left(f, checked) ==
    IF f.cursor_pos[1] = f.min_x THEN f
    ELSE IF u16_sub_panics(f.cursor_pos[1], 1, checked)
    THEN [f EXCEPT !.res = "Panic"]
    ELSE [f EXCEPT !.cursor_pos = <<u16_sub(f.cursor_pos[1], 1), f.cursor_pos[2]>>]

\* KeyCode::Right
on_right(f, checked) ==
    IF u16_sub_panics(f.size[1], SidePanel, checked)
    THEN [f EXCEPT !.res = "Panic"]
    ELSE IF f.cursor_pos[1] = u16_sub(f.size[1], SidePanel) THEN f
    ELSE [f EXCEPT !.cursor_pos = <<f.cursor_pos[1] + 1, f.cursor_pos[2]>>]

\* KeyCode::Backspace
on_backspace(f, checked) ==
    IF f.cursor_pos[1] = f.min_x THEN f
    ELSE LET write_at == f.clicked[1]
             real_pos == u16_sub(f.cursor_pos[1], write_at)
             y == f.cursor_pos[2]
         IN  IF u16_sub_panics(f.cursor_pos[1], write_at, checked)
             THEN [f EXCEPT !.res = "Panic"]
             ELSE IF real_pos > Len(f.input) \/ real_pos = 0 THEN f
             ELSE LET text == RemoveAt(f.input, real_pos - 1)
                      g == [f EXCEPT !.input = text,
                                     !.cursor_pos = <<f.cursor_pos[1] - 1, y>>]
                      a == fill_range(f.vec, f.screen_vec,
                                      write_at, Len(text) + 1, y, EMPTY)
                      b == write_str(a.vec, a.screen_vec, <<write_at, y>>,
                                     Repeat(" ", Len(text) + 1))
                      c == write_str(b.vec, b.screen_vec, <<write_at, y>>, text)
                  IN  IF a.res # "Ok" THEN WithBuffer(g, a)
                      ELSE IF b.res # "Ok" THEN WithBuffer(g, b)
                      ELSE IF c.res # "Ok" THEN WithBuffer(g, c)
                      ELSE step(WithBuffer(g, c))

\* Mutant: the mouse is handled in the keyboard mode too.
on_mouse_ungated(f, kind, pos) ==
    IF kind = "UpLeft" THEN step([f EXCEPT !.clicked = pos])
    ELSE IF kind = "Moved" THEN [f EXCEPT !.cursor_pos = pos]
    ELSE f

\* Event::Mouse
on_mouse(f, kind, pos) ==
    IF f.keyboard_input_mode THEN f
    ELSE IF kind = "UpLeft" THEN step([f EXCEPT !.clicked = pos])
    ELSE IF kind = "Moved" THEN [f EXCEPT !.cursor_pos = pos]
    ELSE f

\* The events a tick can find: the mouse is in a corner of the window.
MouseKinds == {"UpLeft", "Moved", "DownLeft"}
MousePositions(sz) == {0, sz[1] - 1} \X {0, sz[2] - 1}
ResizeSizes == LoopSizes \cup {NarrowSize}

LoopInit ==
    /\ size \in LoopSizes
    /\ vec = NewGrid(size)
    /\ screen_vec = NewGrid(size)
    /\ out = <<>>
    /\ last = Op("new", <<>>, "Ok")
    /\ nops = 0
    /\ FrameNew
    /\ terminal = ClearAll(size)
    /\ hit = NoHit

Polling == proc = "running" /\ pc = "poll" /\ nops < MaxTicks

SetFrame(r) ==
    /\ keyboard_input_mode' = r.keyboard_input_mode
    /\ clicked' = r.clicked
    /\ input' = r.input
    /\ cursor_pos' = r.cursor_pos
    /\ min_x' = r.min_x
    /\ size' = r.size
    /\ vec' = r.vec
    /\ screen_vec' = r.screen_vec
    /\ terminal' = r.terminal
    /\ out' = r.out
    /\ commits' = r.commits
    /\ proc' = IF r.res = "Ok" THEN "running"
                ELSE IF r.res = "Panic" THEN "panicked"
                ELSE "unwrap_err"

\* poll_events returns to main, which unwraps the result; read() has taken
\* the event it found off the queue
Polled(kind, arg, r) ==
    /\ SetFrame(r)
    /\ event' = [kind |-> kind, arg |-> arg, redraw |-> r.redraw]
    /\ pc' = "step"
    /\ nops' = nops + 1
    /\ resized' = (resized \/ kind = "Resize")
    /\ queue' = IF queue = <<>> THEN queue ELSE Tail(queue)
    /\ UNCHANGED <<last, update_needed, hit>>

PollNone == Polling /\ Polled("None", <<>>, CurFrame)

PollResize ==
    /\ Polling
    /\ \E new_size \in ResizeSizes : Polled("Resize", new_size, on_resize(CurFrame, new_size))

PollChar ==
    /\ Polling
    /\ \E c \in Chars, checked \in BOOLEAN :
          Polled("Char", <<c>>, on_char(CurFrame, c, checked))

PollCtrlC ==
    /\ Polling
    /\ event' = [kind |-> "CtrlC", arg |-> <<>>, redraw |-> FALSE]
    /\ proc' = "exited"
    /\ nops' = nops + 1
    /\ commits' = 0
    /\ UNCHANGED <<size, vec, screen_vec, out, last, state_vars,
                   update_needed, terminal, pc, resized, queue, hit>>

PollEsc == Polling /\ Polled("Esc", <<>>, on_esc(CurFrame))

PollEnter == Polling /\ Polled("Enter", <<>>, on_enter(CurFrame))

PollLeft ==
    /\ Polling
    /\ \E checked \in BOOLEAN : Polled("Left", <<>>, on_left(CurFrame, checked))

PollRight ==
    /\ Polling
    /\ \E checked \in BOOLEAN : Polled("Right", <<>>, on_right(CurFrame, checked))

PollBackspace ==
    /\ Polling
    /\ \E checked \in BOOLEAN :
          Polled("Backspace", <<>>, on_backspace(CurFrame, checked))

PollMouse ==
    /\ Polling
    /\ \E kind \in MouseKinds, pos \in MousePositions(size) :
          Polled(kind, pos, on_mouse(CurFrame, kind, pos))

\* a key or an event poll_events drops
PollIgnored == Polling /\ Polled("Ignored", <<>>, CurFrame)

\* the call of main's loop after poll_events
MainStep ==
    /\ proc = "running"
    /\ pc = "step"
    /\ SetFrame(IF update_needed THEN step(CurFrame) ELSE step_no_draw(CurFrame))
    /\ update_needed' = FALSE
    /\ pc' = "poll"
    /\ UNCHANGED <<event, nops, last, resized, queue, hit>>

LoopNext ==
    \/ PollNone
    \/ PollResize
    \/ PollChar
    \/ PollCtrlC
    \/ PollEsc
    \/ PollEnter
    \/ PollLeft
    \/ PollRight
    \/ PollBackspace
    \/ PollMouse
    \/ PollIgnored
    \/ MainStep

LoopSpec == LoopInit /\ [][LoopNext]_vars

\* ------------------------------------------------- the loop with a queue
\* The terminal queues the events as they arrive; poll(0) tells whether the
\* queue holds an event and read() takes the oldest one off it.
MaxQueue == 2

QueueEvents ==
    {[kind |-> "Esc", arg |-> <<>>],
     [kind |-> "Char", arg |-> <<"A">>],
     [kind |-> "Enter", arg |-> <<>>]}

\* the match of poll_events on the event read
handle(f, ev, checked) ==
    CASE ev.kind = "Resize" -> on_resize(f, ev.arg)
      [] ev.kind = "Char" -> on_char(f, ev.arg[1], checked)
      [] ev.kind = "Esc" -> on_esc(f)
      [] ev.kind = "Enter" -> on_enter(f)
      [] ev.kind = "Left" -> on_left(f, checked)
      [] ev.kind = "Right" -> on_right(f, checked)
      [] ev.kind = "Backspace" -> on_backspace(f, checked)
      [] ev.kind \in MouseKinds -> on_mouse(f, ev.kind, ev.arg)
      [] OTHER -> f

\* an event arrives while the loop runs
Arrive ==
    /\ proc = "running"
    /\ Len(queue) < MaxQueue
    /\ \E ev \in QueueEvents : queue' = Append(queue, ev)
    /\ UNCHANGED <<size, vec, screen_vec, out, last, nops, state_vars,
                   update_needed, terminal, event, proc, pc, commits,
                   resized, hit>>

\* poll_events: nothing when poll(0) finds the queue empty, the oldest
\* event otherwise
PollQueue ==
    /\ Polling
    /\ IF queue = <<>>
       THEN Polled("None", <<>>, CurFrame)
       ELSE \E checked \in BOOLEAN :
               Polled(Head(queue).kind, Head(queue).arg,
                      handle(CurFrame, Head(queue), checked))

QueueNext ==
    \/ Arrive
    \/ PollQueue
    \/ MainStep

QueueSpec == LoopInit /\ [][QueueNext]_vars

\* ------------------------------------------------ clicks (drawing.rs)
\* check_click and Clickable::on_click are functions of their arguments: the
\* initial state draws the arguments and one action applies each function.
MaxSide == 2

\* u16 addition: with overflow checks a + b panics when it passes 2^16 - 1,
\* without them it wraps.
u16_add_panics(a, b, checked) == checked /\ a + b >= U16
u16_add(a, b) == (a + b) % U16

\* Range::contains of start..end
RangeContains(start, end, x) == start <= x /\ x < end

\* check_click(state, res)
check_click(state, res, checked) ==
    IF \/ u16_add_panics(res.pos[1], res.size[1], checked)
       \/ u16_add_panics(res.pos[2], res.size[2], checked)
    THEN [res |-> "Panic", inside |-> FALSE]
    ELSE [res |-> "Ok",
          inside |->
             ~( \/ ~RangeContains(res.pos[1], u16_add(res.pos[1], res.size[1]),
                                  state.clicked[1])
                \/ ~RangeContains(res.pos[2], u16_add(res.pos[2], res.size[2]),
                                  state.clicked[2]) )]

\* The transition functions a caller hands to on_click: two stand-ins.
Runs == {"toggle", "home"}
RunFn(run, state) ==
    IF run = "toggle"
    THEN [state EXCEPT !.keyboard_input_mode = ~state.keyboard_input_mode]
    ELSE [state EXCEPT !.cursor_pos = <<0, 0>>]

\* Clickable::on_click(res, state, run)
on_click(res, state, run, checked) ==
    LET c == check_click(state, res, checked)
    IN  IF c.res # "Ok" THEN [res |-> c.res, after |-> state, called |-> FALSE]
        ELSE IF c.inside
        THEN [res |-> "Ok", after |-> RunFn(run, state), called |-> TRUE]
        ELSE [res |-> "Ok", after |-> state, called |-> FALSE]

\* Coordinates near 0 and the largest u16.
ClickCoords == {0, 1, U16 - 1}
ClickStates ==
    [keyboard_input_mode : BOOLEAN, clicked : ClickCoords \X ClickCoords,
     input : {<<>>}, cursor_pos : {<<1, 1>>}, min_x : {0}]
Rects == [pos : ClickCoords \X ClickCoords, size : (0..MaxSide) \X (0..MaxSide)]

ClickInit ==
    /\ size = <<1, 1>>
    /\ vec = NewGrid(size)
    /\ screen_vec = NewGrid(size)
    /\ out = <<>>
    /\ last = Op("new", <<>>, "Ok")
    /\ nops = 0
    /\ FrameNew
    /\ terminal = <<>>
    /\ hit \in [op : {"none"}, state : ClickStates, rect : Rects, run : Runs,
                res : {"none"}, inside : {FALSE}, after : {<<>>}, called : {FALSE}]

CheckClick ==
    /\ hit.op = "none"
    /\ \E checked \in BOOLEAN :
          LET c == check_click(hit.state, hit.rect, checked)
          IN  hit' = [hit EXCEPT !.op = "check_click", !.res = c.res,
                                 !.inside = c.inside]
    /\ UNCHANGED <<size, vec, screen_vec, out, last, nops, state_vars,
                   update_needed, terminal, event, proc, pc, commits,
                   resized, queue>>

OnClick ==
    /\ hit.op = "none"
    /\ \E checked \in BOOLEAN :
          LET c == on_click(hit.rect, hit.state, hit.run, checked)
          IN  hit' = [hit EXCEPT !.op = "on_click", !.res = c.res,
                                 !.after = c.after, !.called = c.called]
    /\ UNCHANGED <<size, vec, screen_vec, out, last, nops, state_vars,
                   update_needed, terminal, event, proc, pc, commits,
                   resized, queue>>

ClickNext ==
    \/ CheckClick
    \/ OnClick

ClickSpec == ClickInit /\ [][ClickNext]_vars

\* ------------------------------------------------------------ properties
InRange(pos, sz) == pos[1] < sz[1] /\ pos[2] < sz[2]

IsOutOfBounds(r) == r \in {NotFound, InvalidInput}

WellSized(grid, sz) ==
    /\ Len(grid) = sz[2]
    /\ \A y \in 1..Len(grid) : Len(grid[y]) = sz[1]

\* g2 is g with the cell at pos replaced by buf, and nothing else changed.
OnlyCellChanged(g, g2, pos, buf) ==
    /\ Len(g2) = Len(g)
    /\ \A y \in 1..Len(g) :
          /\ Len(g2[y]) = Len(g[y])
          /\ \A x \in 1..Len(g[y]) :
                g2[y][x] = IF <<x - 1, y - 1>> = pos THEN buf ELSE g[y][x]

HasContent(grid) == \E y \in 1..Len(grid) : \E x \in 1..Len(grid[y]) : grid[y][x] # EMPTY

\* Every entry of the log is the committed cell at its position.
LogMatches(changes, sv) ==
    \A i \in 1..Len(changes) :
        /\ get_cell(sv, changes[i].loc).res = "Ok"
        /\ get_cell(sv, changes[i].loc).cell = changes[i].cell

\* The last entry of the log for the position of entry i.
LastFor(changes, i) ==
    LET js == {j \in 1..Len(changes) : changes[j].loc = changes[i].loc}
    IN  changes[CHOOSE j \in js : \A k \in js : k <= j]

Repeated(changes, i) ==
    \E j \in 1..Len(changes) : j # i /\ changes[j].loc = changes[i].loc


\* C1: a write at a position inside the grid succeeds and, after the commit
\* that follows it, reading the position gives the character written.
C1_WriteCommitRead ==
    [][ /\ (last'.op = "write_cell" /\ InRange(last'.pos, size))
              => last'.res = "Ok"
        /\ (last.op = "write_cell" /\ last.res = "Ok" /\ last'.op = "commit")
              => /\ get_cell(screen_vec', last.pos).res = "Ok"
                 /\ get_cell(screen_vec', last.pos).cell.char = last.cell.char
      ]_vars

\* C2: a write at a row >= height or a column >= width (the column equal to
\* the row length included) returns an out-of-bounds error, does not crash,
\* and leaves both grids as they were.
C2_OutOfBoundsWriteFails ==
    [][ (last'.op = "write_cell" /\ ~InRange(last'.pos, size))
            => /\ IsOutOfBounds(last'.res)
               /\ vec' = vec
               /\ screen_vec' = screen_vec
      ]_vars

\* C3: after any commit the pending grid has size.height rows of size.width
\* cells, all EMPTY.
C3_PendingEmptyAfterCommit ==
    last.op = "commit" =>
        /\ Len(vec) = size[2]
        /\ \A y \in 1..Len(vec) :
              /\ Len(vec[y]) = size[1]
              /\ \A x \in 1..Len(vec[y]) : vec[y][x] = EMPTY

\* A commit that repainted a row has just reset a pending grid with content.
C3_Witness == last.op = "commit" /\ out # <<>> /\ size[1] # size[2]

\* C4: with nothing pending, absorbing a log whose every entry is the
\* committed cell at its position changes neither grid, and the commit that
\* follows emits no terminal write.
C4_MatchingLogIsNoOp ==
    [][ /\ ( /\ last'.op = "consume_changes"
             /\ ~HasContent(vec)
             /\ LogMatches(last'.changes, screen_vec) )
              => (last'.res = "Ok" /\ vec' = vec /\ screen_vec' = screen_vec)
        /\ ( /\ last.op = "consume_changes"
             /\ last.clean
             /\ LogMatches(last.changes, screen_vec)
             /\ ~HasContent(vec)
             /\ last'.op = "commit" )
              => (out' = <<>> /\ screen_vec' = screen_vec)
      ]_vars

\* A log with a non-empty entry was absorbed onto a committed grid that
\* already shows it.
C4_Witness ==
    /\ last.op = "consume_changes"
    /\ last.clean
    /\ LogMatches(last.changes, screen_vec)
    /\ \E i \in 1..Len(last.changes) : ~last.changes[i].cell.empty

\* C5: when a log holds several entries for one position, after absorb and
\* commit the committed cell there is the cell of the last such entry.
C5_LaterEntryWins ==
    [][ ( /\ last.op = "consume_changes"
          /\ last.res = "Ok"
          /\ last.clean
          /\ last'.op = "commit" )
            => \A i \in 1..Len(last.changes) :
                  Repeated(last.changes, i)
                    => get_cell(screen_vec', last.changes[i].loc).cell
                         = LastFor(last.changes, i).cell
      ]_vars

\* C6: a successful write of a non-empty cell changes pending[y][x] only and
\* leaves the committed grid (hence what read returns) alone; a successful
\* write of an empty cell changes committed[y][x] only, and read and the
\* de-duplication test of absorb see it at once.
C6_WriteTargetsOneGrid ==
    [][ (last'.op = "write_cell" /\ last'.res = "Ok")
            => IF ~last'.cell.empty
               THEN /\ OnlyCellChanged(vec, vec', last'.pos, last'.cell)
                    /\ screen_vec' = screen_vec
                    /\ get_cell(screen_vec', last'.pos) = get_cell(screen_vec, last'.pos)
               ELSE /\ OnlyCellChanged(screen_vec, screen_vec', last'.pos, last'.cell)
                    /\ vec' = vec
                    /\ get_cell(screen_vec', last'.pos) = [res |-> "Ok", cell |-> last'.cell]
                    /\ ~is_changed(screen_vec', [loc |-> last'.pos, cell |-> last'.cell])
      ]_vars

\* An empty cell that is not EMPTY was written over pending content.
C6_Witness ==
    /\ last.op = "write_cell"
    /\ last.res = "Ok"
    /\ last.cell.empty
    /\ last.cell # EMPTY
    /\ HasContent(vec)

\* C7: between operations both grids have size.height rows of size.width
\* cells.
C7_GridsMatchSize == WellSized(vec, size) /\ WellSized(screen_vec, size)

\* A resize to another width and height kept content.
C7_Witness ==
    /\ last.op = "resize"
    /\ last.old_size[1] # size[1]
    /\ last.old_size[2] # size[2]
    /\ size[1] # size[2]
    /\ (HasContent(vec) \/ HasContent(screen_vec))

\* C8: resize is idempotent: in the state a resize(s) leaves, resize(s)
\* changes neither grid nor the size.
C8_ResizeIdempotent ==
    last.op = "resize" =>
        /\ resize_vec(vec, size) = vec
        /\ resize_vec(screen_vec, size) = screen_vec

\* A resize that grew the height of a grid with content.
C8_Witness ==
    /\ last.op = "resize"
    /\ last.old_size[2] < size[2]
    /\ size[1] # size[2]
    /\ (HasContent(vec) \/ HasContent(screen_vec))

\* C9: a resize to a size at least as wide and as high, followed by a resize
\* back, gives both grids the contents they had.
C9_GrowThenShrinkRestores ==
    [][ (last'.op = "resize" /\ size'[1] >= size[1] /\ size'[2] >= size[2])
            => /\ resize_vec(vec', size) = vec
               /\ resize_vec(screen_vec', size) = screen_vec
      ]_vars

\* A grid with content was grown in both directions.
C9_Witness ==
    /\ last.op = "resize"
    /\ last.old_size[1] < size[1]
    /\ last.old_size[2] < size[2]
    /\ (HasContent(vec) \/ HasContent(screen_vec))

\* C10 as stated: commit emits exactly one write, at (0, y) and holding the
\* whole committed row after the diff, for every row whose pending row is
\* not all-EMPTY, and none for the other rows.
C10_OneWritePerPendingRow ==
    [][ last'.op = "commit"
            => \A y \in 1..Len(vec) :
                  IF vec[y] # as_row(size[1]) /\ y <= Len(screen_vec)
                  THEN /\ Cardinality(WritesFor(out', y - 1)) = 1
                       /\ \A i \in WritesFor(out', y - 1) :
                             /\ out'[i].move_to = <<0, y - 1>>
                             /\ out'[i].line = line_of(screen_vec'[y])
                  ELSE WritesFor(out', y - 1) = {}
      ]_vars

\* C10 as amended: the rows that emit are those whose pending row is not
\* all-EMPTY and differs from the committed row before the diff; every other
\* row emits nothing.
C10_OneWritePerChangedRow ==
    [][ last'.op = "commit"
            => /\ \A y \in 1..Len(vec) :
                  IF /\ vec[y] # as_row(size[1])
                     /\ y <= Len(screen_vec)
                     /\ vec[y] # screen_vec[y]
                  THEN /\ Cardinality(WritesFor(out', y - 1)) = 1
                       /\ \A i \in WritesFor(out', y - 1) :
                             /\ out'[i].move_to = <<0, y - 1>>
                             /\ out'[i].line = line_of(screen_vec'[y])
                  ELSE WritesFor(out', y - 1) = {}
               /\ \A i \in 1..Len(out') : out'[i].move_to[2] < Len(vec)
      ]_vars

\* A commit that repainted one row and left another alone, on a committed
\* row that kept a cell the pending row did not carry.
C10_Witness ==
    /\ last.op = "commit"
    /\ Len(out) = 1
    /\ size[2] > 1
    /\ \E x \in 1..Len(out[1].line) : out[1].line[x] # " "

\* C11 as stated: commit leaves a non-empty committed cell alone when the
\* pending cell is empty, and changes a committed cell only when the pending
\* cell is non-empty and its character differs, to the pending cell.
C11_CommitChangesOnlyForNonEmpty ==
    [][ last'.op = "commit"
            => \A y \in 1..Len(screen_vec) : \A x \in 1..Len(screen_vec[y]) :
                  /\ (~screen_vec[y][x].empty /\ vec[y][x].empty)
                        => screen_vec'[y][x] = screen_vec[y][x]
                  /\ screen_vec'[y][x] # screen_vec[y][x]
                        => /\ ~vec[y][x].empty
                           /\ vec[y][x].char # screen_vec[y][x].char
                           /\ screen_vec'[y][x] = vec[y][x]
      ]_vars

\* C11 as amended: a committed cell changes only when the characters differ
\* and the pending cell is non-empty or the committed cell is itself empty.
C11_CommitNeverErases ==
    [][ last'.op = "commit"
            => \A y \in 1..Len(screen_vec) : \A x \in 1..Len(screen_vec[y]) :
                  /\ (~screen_vec[y][x].empty /\ vec[y][x].empty)
                        => screen_vec'[y][x] = screen_vec[y][x]
                  /\ screen_vec'[y][x] # screen_vec[y][x]
                        => /\ (~vec[y][x].empty \/ screen_vec[y][x].empty)
                           /\ vec[y][x].char # screen_vec[y][x].char
                           /\ screen_vec'[y][x] = vec[y][x]
      ]_vars

\* A commit repainted a row in which a non-empty committed cell met an empty
\* pending cell, and the cell is still there.
C11_Witness == last.op = "commit" /\ last.kept /\ out # <<>>

\* ------------------------------------------------- properties of the loop
TickEnded == proc = "running" /\ pc = "poll" /\ nops > 0

\* C12: at the end of every tick the terminal shows, at every position of
\* the window, the character of the committed cell of that position.
C12_TerminalShowsCommitted ==
    TickEnded
        => \A y \in 1..Len(terminal) : \A x \in 1..Len(terminal[y]) :
              (y <= Len(screen_vec) /\ x <= Len(screen_vec[y]))
                  => terminal[y][x] = screen_vec[y][x].char

\* C13: an operation of the buffer that fails with an out-of-bounds error
\* never ends the process: the tick completes.
C13_OutOfBoundsNotFatal == proc # "unwrap_err"

\* poll_events handles an event of this kind in this step.
Handled(kind) == pc = "poll" /\ nops' # nops /\ event'.kind = kind

C15_CharInserts ==
    [][ ( /\ Handled("Char")
          /\ keyboard_input_mode
          /\ cursor_pos[1] >= clicked[1]
          /\ cursor_pos[1] - clicked[1] <= Len(input) )
            => /\ input' = SubSeq(input, 1, cursor_pos[1] - clicked[1])
                             \o event'.arg
                             \o SubSeq(input, cursor_pos[1] - clicked[1] + 1, Len(input))
               /\ cursor_pos' = <<cursor_pos[1] + 1, cursor_pos[2]>>
               /\ keyboard_input_mode' = keyboard_input_mode
               /\ clicked' = clicked
      ]_vars

\* C16: in the keyboard mode, with the cursor right of the anchor and relPos
\* in 1..length of the text, Backspace removes the character at relPos - 1
\* and moves the cursor one column left; mode, anchor and cursor.y stay.
C16_BackspaceRemoves ==
    [][ ( /\ Handled("Backspace")
          /\ keyboard_input_mode
          /\ cursor_pos[1] > clicked[1]
          /\ cursor_pos[1] - clicked[1] <= Len(input) )
            => /\ input' = SubSeq(input, 1, cursor_pos[1] - clicked[1] - 1)
                             \o SubSeq(input, cursor_pos[1] - clicked[1] + 1, Len(input))
               /\ cursor_pos' = <<cursor_pos[1] - 1, cursor_pos[2]>>
               /\ keyboard_input_mode' = keyboard_input_mode
               /\ clicked' = clicked
      ]_vars

\* Backspace removed a character in the keyboard mode, ran its redraw, and
\* left a character of the text behind.
C16_Witness ==
    /\ event.kind = "Backspace"
    /\ event.redraw
    /\ keyboard_input_mode
    /\ input # <<>>

\* C17: Left moves the cursor one column left exactly when cursor.x > min_x,
\* and never below min_x or 0.
C17_LeftStopsAtMinX ==
    [][ Handled("Left")
            => /\ IF cursor_pos[1] > min_x
                  THEN cursor_pos' = <<cursor_pos[1] - 1, cursor_pos[2]>>
                  ELSE cursor_pos' = cursor_pos
               /\ cursor_pos'[1] >= min_x'
               /\ cursor_pos'[1] >= 0
      ]_vars

\* Left moved the cursor and the cursor is still right of min_x.
C17_Witness == event.kind = "Left" /\ cursor_pos[1] > min_x /\ proc = "running"

\* C18: Right moves the cursor one column right exactly when
\* cursor.x < width - 51, so Right never moves it past width - 51.
C18_RightStopsAtSidePanel ==
    [][ Handled("Right")
            => /\ IF cursor_pos[1] < size[1] - SidePanel
                  THEN cursor_pos' = <<cursor_pos[1] + 1, cursor_pos[2]>>
                  ELSE cursor_pos' = cursor_pos
               /\ cursor_pos[1] <= size[1] - SidePanel
                     => cursor_pos'[1] <= size[1] - SidePanel
      ]_vars

\* C19: Enter clears the text in either mode and keeps the mode; on the last
\* row it clears the screen and puts the cursor at (0, 0) with the anchor
\* kept; on any other row it moves the anchor one row down and puts the
\* cursor on the anchor; its redraw and commit run in the same tick.
C19_Submit ==
    [][ Handled("Enter")
            => /\ input' = <<>>
               /\ keyboard_input_mode' = keyboard_input_mode
               /\ event'.redraw
               /\ IF cursor_pos[2] + 1 = size[2]
                  THEN /\ cursor_pos' = <<0, 0>>
                       /\ clicked' = clicked
                       /\ terminal' = TerminalAfter(ClearAll(size), out')
                  ELSE /\ clicked' = <<clicked[1], clicked[2] + 1>>
                       /\ cursor_pos' = clicked'
      ]_vars

\* Enter in the keyboard mode, away from the last row, with the anchor away
\* from column 0: the anchor went a row down and the cursor with it.
C19_Witness ==
    /\ event.kind = "Enter"
    /\ keyboard_input_mode
    /\ clicked[1] > 0 /\ clicked[2] > 0
    /\ cursor_pos = clicked

\* C20: in the keyboard mode a mouse event changes neither State nor a grid;
\* in the pointer mode a left button-up sets the anchor to the position of
\* the mouse and nothing else of State, and a move of the mouse sets the
\* cursor to the position and nothing else of State, without a redraw.
C20_MouseGatedByMode ==
    [][ (Handled("UpLeft") \/ Handled("Moved") \/ Handled("DownLeft"))
            => IF keyboard_input_mode
               THEN UNCHANGED <<state_vars, vec, screen_vec>>
               ELSE /\ UNCHANGED <<keyboard_input_mode, input, min_x>>
                    /\ event'.kind = "UpLeft"
                          => clicked' = event'.arg /\ cursor_pos' = cursor_pos
                    /\ event'.kind = "Moved"
                          => /\ cursor_pos' = event'.arg /\ clicked' = clicked
                             /\ ~event'.redraw
                             /\ UNCHANGED <<vec, screen_vec, terminal>>
      ]_vars

\* A click in the keyboard mode, away from the anchor, was dropped.
C20_Witness ==
    /\ event.kind = "UpLeft"
    /\ keyboard_input_mode
    /\ clicked # event.arg

\* C21: an edit key whose precondition fails does nothing and does not end
\* the process: a character key in the pointer mode or with relPos beyond
\* the text, and Backspace outside the keyboard mode, with the cursor not
\* right of the anchor, or with relPos outside 1..length of the text, leave
\* State and both grids as they are.
C21_FailedEditKeyIsNoOp ==
    [][ ( \/ /\ Handled("Char")
             /\ \/ ~keyboard_input_mode
                \/ u16_sub(cursor_pos[1], clicked[1]) > Len(input)
          \/ /\ Handled("Backspace")
             /\ \/ ~keyboard_input_mode
                \/ cursor_pos[1] <= clicked[1]
                \/ u16_sub(cursor_pos[1], clicked[1]) > Len(input) )
            => /\ UNCHANGED <<state_vars, vec, screen_vec>>
               /\ proc' = "running"
      ]_vars

\* C22: at the end of the tick of a Resize(w, h) both grids have the size
\* (w, h) and the terminal shows every non-empty committed cell, the ones a
\* render pass draws as before the resize included.
C22_ResizeRedrawsAll ==
    (TickEnded /\ event.kind = "Resize")
        => /\ size = event.arg
           /\ WellSized(vec, size) /\ WellSized(screen_vec, size)
           /\ \A y \in 1..Len(screen_vec) : \A x \in 1..Len(screen_vec[y]) :
                 ~screen_vec[y][x].empty
                     => /\ y <= Len(terminal) /\ x <= Len(terminal[y])
                        /\ terminal[y][x] = screen_vec[y][x].char

\* C23: a tick takes at most one event off the queue, the oldest one, and
\* handles it, its redraw included, before main goes on; every tick that
\* ends has run at least one commit pass, with an event, without one or
\* with one that was dropped, and leaves nothing pending.
C23_OneEventPerTickInOrder ==
    [][ /\ (pc = "poll" /\ nops' # nops)
            => /\ IF queue = <<>>
                  THEN event'.kind = "None" /\ queue' = <<>>
                  ELSE /\ event'.kind = Head(queue).kind
                       /\ event'.arg = Head(queue).arg
                       /\ queue' = Tail(queue)
               /\ event'.redraw => (commits' >= 1 /\ vec' = NewGrid(size'))
        /\ (pc = "step" /\ pc' = "poll" /\ proc' = "running")
            => (commits' >= 1 /\ vec' = NewGrid(size'))
      ]_vars

\* A tick has ended that took a character key off the queue with a younger
\* event left in it, and ran the commit of the key's redraw and main's own.
C23_Witness ==
    /\ TickEnded
    /\ event.kind = "Char"
    /\ event.redraw
    /\ queue # <<>>
    /\ commits >= 2

\* The click of a state is inside a rectangle: anchor.x in
\* [pos.x, pos.x + size.x) and anchor.y in [pos.y, pos.y + size.y).
InRect(state, rect) ==
    /\ rect.pos[1] <= state.clicked[1]
    /\ state.clicked[1] < rect.pos[1] + rect.size[1]
    /\ rect.pos[2] <= state.clicked[2]
    /\ state.clicked[2] < rect.pos[2] + rect.size[2]

\* C24: check_click is true exactly when the click is inside the rectangle;
\* on_click returns the transition function applied to the state when the
\* click is inside, and the state itself, the function not called, otherwise.
C24_ClickHitTest ==
    /\ hit.op = "check_click"
          => (hit.res = "Ok" /\ hit.inside = InRect(hit.state, hit.rect))
    /\ hit.op = "on_click"
          => /\ hit.res = "Ok"
             /\ IF InRect(hit.state, hit.rect)
                THEN hit.called /\ hit.after = RunFn(hit.run, hit.state)
                ELSE ~hit.called /\ hit.after = hit.state

\* The result of the write of the i-th character of text on its own.
CharWrite(pos, text, i) ==
    write_cell(vec, screen_vec, <<pos[1] + (i - 1), pos[2]>>, from_char(text[i])).res

\* The first character of text whose write does not succeed, Len(text) + 1
\* when all succeed.
FirstFailing(pos, text) ==
    LET failing == {i \in 1..Len(text) : CharWrite(pos, text, i) # "Ok"}
    IN  IF failing = {} THEN Len(text) + 1
        ELSE CHOOSE i \in failing : \A j \in failing : i <= j

\* The grid with the first k - 1 characters of text written from pos on, the
\* empty ones when `empties`, the others when not.
WithChars(grid, pos, text, k, empties) ==
    [y \in 1..Len(grid) |-> [x \in 1..Len(grid[y]) |->
        LET hits == {i \in 1..(k - 1) :
                        /\ <<pos[1] + (i - 1), pos[2]>> = <<x - 1, y - 1>>
                        /\ from_char(text[i]).empty = empties}
        IN  IF hits = {} THEN grid[y][x]
            ELSE from_char(text[CHOOSE i \in hits : TRUE])]]

\* write_str does one write per character, left to right from pos, up to
\* the first one that does not succeed, and ends as that write ends.
WriteStrStopsAtFirstFailure(pos, text) ==
    LET k == FirstFailing(pos, text)
        r == write_str(vec, screen_vec, pos, text)
    IN  /\ r.vec = WithChars(vec, pos, text, k, FALSE)
        /\ r.screen_vec = WithChars(screen_vec, pos, text, k, TRUE)
        /\ r.res = IF k > Len(text) THEN "Ok" ELSE CharWrite(pos, text, k)

\* C25: write_str writes the i-th character at (pos.x + i, pos.y), in order,
\* stops at the first character whose write fails and returns its error;
\* the writes before it stay and no later character is written.
C25_WriteStrReturnsFirstError ==
    /\ \A pos \in StrPositions, text \in Texts :
          WriteStrStopsAtFirstFailure(pos, text)
    /\ last.op = "write_str" => last.res \in {"Ok", NotFound, InvalidInput}

C27_PointerModeHasNoText == ~keyboard_input_mode => input = <<>>

\* The keyboard mode was left after a character had been typed: the typed
\* character is on the committed grid and the text is gone.
C27_Witness ==
    /\ event.kind = "Esc"
    /\ ~keyboard_input_mode
    /\ \E y \in 1..Len(screen_vec) : \E x \in 1..Len(screen_vec[y]) :
          screen_vec[y][x].char = "A"

\* C28: when a character key or Backspace computes cursor.x - anchor.x,
\* the cursor is not left of the anchor.
C28_RelPosNeverUnderflows ==
    [][ ( \/ Handled("Char") /\ keyboard_input_mode
          \/ Handled("Backspace") /\ cursor_pos[1] # min_x )
            => cursor_pos[1] >= clicked[1]
      ]_vars

\* C29: while the window keeps its size, the cursor is inside the window.
C29_CursorInsideWindow ==
    ~resized => (cursor_pos[1] < size[1] /\ cursor_pos[2] < size[2])

====
